---- MODULE Spec2Model ----
(***************************************************************************)
(* Model of puzzgen: Builder -> Puzzle::build (gen_vertices, gen_edges,    *)
(* add_edge) -> Puzzle::to_svg.                                            *)
(*                                                                         *)
(* f32 values are modelled in fixed point, as integers counting hundredths *)
(* (FScale), with two sentinels for the IEEE results of a division by zero *)
(* (FInf, FNaN).  The inputs are chosen so that every division and product *)
(* the program performs on them is exact in this representation.           *)
(***************************************************************************)
EXTENDS Integers, Sequences, FiniteSets

VARIABLES
    jitter_pct,   \* the configured jitter percentage (main.rs, --vertex_jitter)
    builder,      \* Builder { x_mm, y_mm, x_pieces, y_pieces }
    pc,           \* position of the program
    panic,        \* "" or the assertion that aborted the program
    x_mm, y_mm, x_pieces, y_pieces,   \* Puzzle fields
    vertices,     \* Puzzle.vertices : Vec<Point>
    edges,        \* Puzzle.edges : HashMap<(VertexIndex, VertexIndex), Edge>
    done, todo,   \* gen_edges locals
    rng,          \* the random source: [seed, pos]
    calls,        \* number of add_edge calls made for each key
    svg,          \* result of to_svg
    prev          \* what an earlier run of the program produced

vars == <<jitter_pct, builder, pc, panic, x_mm, y_mm, x_pieces, y_pieces,
          vertices, edges, done, todo, rng, calls, svg, prev>>

(***************************************************************************)
(* Bounds                                                                  *)
(***************************************************************************)
\* largest number of grid vertices, (x_pieces+1)*(y_pieces+1), of a puzzle
MaxVertices == 9
\* number of distinct random streams the random source may deliver
NumSeeds == 2
\* number of distinct HashMap iteration orders considered in to_svg
NumHashOrders == 2

Seeds == 0 .. (NumSeeds - 1)
HashOrders == 0 .. (NumHashOrders - 1)

\* arguments of Builder::pieces
PieceInputs ==
    { p \in (0 .. MaxVertices) \X (0 .. MaxVertices) :
        (p[1] + 1) * (p[2] + 1) <= MaxVertices }

\* arguments of Builder::size, in mm: multiples of every piece count in use
SizeInputs == { <<2520, 2520>>, <<5040, 2520>> }

\* values of --vertex_jitter
JitterInputs == { 0, 10 }

(***************************************************************************)
(* f32 in fixed point                                                      *)
(***************************************************************************)
FScale == 10 * 10
FInf == 1000000000 + 1
FNaN == 0 - FInf

F(n) == n * FScale

IsNum(a) == a # FInf /\ a # FNaN

FNeg(a) == IF a = FNaN THEN FNaN ELSE IF a = FInf THEN FNaN ELSE 0 - a

FAdd(a, b) ==
    IF a = FNaN \/ b = FNaN THEN FNaN
    ELSE IF a = FInf \/ b = FInf THEN FInf
    ELSE a + b

FSub(a, b) ==
    IF a = FNaN \/ b = FNaN THEN FNaN
    ELSE IF b = FInf THEN FNaN
    ELSE IF a = FInf THEN FInf
    ELSE a - b

FMul(a, b) ==
    IF a = FNaN \/ b = FNaN THEN FNaN
    ELSE IF a = FInf \/ b = FInf
         THEN (IF a = 0 \/ b = 0 THEN FNaN ELSE FInf)
    ELSE (a * b) \div FScale

FDiv(a, b) ==
    IF a = FNaN \/ b = FNaN THEN FNaN
    ELSE IF b = 0 THEN (IF a = 0 THEN FNaN ELSE FInf)
    ELSE (a * FScale) \div b

FAbs(a) == IF IsNum(a) /\ a < 0 THEN 0 - a ELSE a

(***************************************************************************)
(* geom.rs: Point                                                          *)
(***************************************************************************)
Pt(x, y) == [x |-> x, y |-> y]

\* sqrt(dy^2 + dx^2); every segment of the grid is parallel to an axis
dist(p, other) ==
    LET dy == FSub(p.y, other.y)
        dx == FSub(p.x, other.x)
    IN IF dy = FNaN \/ dx = FNaN THEN FNaN
       ELSE IF dx = 0 THEN FAbs(dy)
       ELSE IF dy = 0 THEN FAbs(dx)
       ELSE FNaN

mirror_x(p) == Pt(p.x, FNeg(p.y))

scale(p, x_factor, y_factor) == Pt(FMul(p.x, x_factor), FMul(p.y, y_factor))

translate_to(p, q) == Pt(FAdd(p.x, q.x), FAdd(p.y, q.y))

\* angles are kept in degrees; the grid only produces 0 and 90
Cos(theta) == IF theta = 0 THEN F(1) ELSE 0
Sin(theta) == IF theta = 0 THEN 0 ELSE F(1)

rotate_by(p, theta) ==
    Pt(FSub(FMul(p.x, Cos(theta)), FMul(p.y, Sin(theta))),
       FAdd(FMul(p.x, Sin(theta)), FMul(p.y, Cos(theta))))

\* rise.atan2(run) for rise, run >= 0
Atan2(rise, run) == IF IsNum(rise) /\ rise > 0 /\ run = 0 THEN 90 ELSE 0

(***************************************************************************)
(* The random source                                                       *)
(***************************************************************************)
\* the value the stream of a seed delivers at a position: each stream
\* alternates between two values, and the streams of different seeds differ
Raw(seed, pos) == (5 * seed + 3 * pos) % 6

\* rng.gen_range(low, high): a value of [low, high)
GenRange(r, low, high) == low + (Raw(r.seed, r.pos) % (high - low))

\* rng.gen::<bool>()
GenBool(r) == (Raw(r.seed, r.pos) % 2) = 1

Advance(r, n) == [seed |-> r.seed, pos |-> r.pos + n]

\* Point::jitter: two draws
jitter(p, max, r) ==
    LET delta_x == GenRange(r, 0 - max, max)
        delta_y == GenRange(Advance(r, 1), 0 - max, max)
    IN Pt(FAdd(p.x, delta_x), FAdd(p.y, delta_y))

(***************************************************************************)
(* puzz.rs: VertexIndex, Edge, EdgeDesc                                    *)
(***************************************************************************)
VertexIndex(row, col) == [row |-> row, col |-> col]

\* the derived Ord of VertexIndex: by row, then by column
VLess(a, b) == a.row < b.row \/ (a.row = b.row /\ a.col < b.col)
VMin(a, b) == IF VLess(b, a) THEN b ELSE a
VMax(a, b) == IF VLess(b, a) THEN a ELSE b

\* EdgeDesc::unit_edge
unit_edge ==
    [ polarity |-> "Left",
      nubbin_start |-> Pt(40, 10),
      nubbin_end |-> Pt(60, 10),
      start_control |-> Pt(20, 0),
      left_nubbin_control |-> Pt(50, 0 - 10),
      right_nubbin_control |-> Pt(70, 30),
      end_control |-> Pt(80, 0) ]

plain == [kind |-> "Bumpless"]
nubbin == [kind |-> "Bumpy", desc |-> unit_edge]

\* number of draws Edge::jitter takes from the random source
JitterDraws(e) == IF e.kind = "Bumpy" THEN 12 ELSE 0

\* Edge::jitter (method of Edge; Point::jitter is jitter above)
Edge_jitter(e, max, r) ==
    IF e.kind = "Bumpless" THEN e
    ELSE LET d == e.desc IN
         [ kind |-> "Bumpy",
           desc |->
             [ polarity |-> d.polarity,
               nubbin_start |-> jitter(d.nubbin_start, max \div 2, r),
               nubbin_end |-> jitter(d.nubbin_end, max \div 2, Advance(r, 2)),
               start_control |-> jitter(d.start_control, max, Advance(r, 4)),
               end_control |-> jitter(d.end_control, max, Advance(r, 6)),
               left_nubbin_control |->
                   jitter(d.left_nubbin_control, max, Advance(r, 8)),
               right_nubbin_control |->
                   jitter(d.right_nubbin_control, max, Advance(r, 10)) ] ]

\* Edge::mirror_x
Edge_mirror_x(e) ==
    IF e.kind = "Bumpless" THEN e
    ELSE LET d == e.desc IN
         [ kind |-> "Bumpy",
           desc |->
             [ polarity |-> d.polarity,
               nubbin_start |-> mirror_x(d.nubbin_start),
               nubbin_end |-> mirror_x(d.nubbin_end),
               start_control |-> mirror_x(d.start_control),
               end_control |-> mirror_x(d.end_control),
               left_nubbin_control |-> mirror_x(d.left_nubbin_control),
               right_nubbin_control |-> mirror_x(d.right_nubbin_control) ] ]

\* Edge::transform_point
transform_point(pt, start, end) ==
    LET rise == FSub(end.y, start.y)
        run == FSub(end.x, start.x)
        theta == Atan2(rise, run)
        d == dist(start, end)
    IN translate_to(rotate_by(scale(pt, d, d), theta), start)

\* Edge::transform
transform(e, start, end) ==
    IF e.kind = "Bumpless" THEN e
    ELSE LET d == e.desc IN
         [ kind |-> "Bumpy",
           desc |->
             [ polarity |-> d.polarity,
               nubbin_start |-> transform_point(d.nubbin_start, start, end),
               nubbin_end |-> transform_point(d.nubbin_end, start, end),
               start_control |-> transform_point(d.start_control, start, end),
               end_control |-> transform_point(d.end_control, start, end),
               left_nubbin_control |->
                   transform_point(d.left_nubbin_control, start, end),
               right_nubbin_control |->
                   transform_point(d.right_nubbin_control, start, end) ] ]

\* mutant of Edge_svg: the curve ends of the nubbin are written in the
\* wrong places (nubbin_start and nubbin_end exchanged)
Edge_svg_Swapped(e, start, end) ==
    IF e.kind = "Bumpless"
    THEN << [op |-> "M", args |-> <<start>>],
            [op |-> "L", args |-> <<end>>] >>
    ELSE << [op |-> "M", args |-> <<start>>],
            [op |-> "C", args |-> << e.desc.start_control,
                                     e.desc.left_nubbin_control,
                                     e.desc.nubbin_end >>],
            [op |-> "S", args |-> << e.desc.right_nubbin_control,
                                     e.desc.nubbin_start,
                                     e.desc.end_control,
                                     end >>] >>

\* Edge::svg: the path commands of one edge, each with its points in order
Edge_svg(e, start, end) ==
    IF e.kind = "Bumpless"
    THEN << [op |-> "M", args |-> <<start>>],
            [op |-> "L", args |-> <<end>>] >>
    ELSE << [op |-> "M", args |-> <<start>>],
            [op |-> "C", args |-> << e.desc.start_control,
                                     e.desc.left_nubbin_control,
                                     e.desc.nubbin_start >>],
            [op |-> "S", args |-> << e.desc.right_nubbin_control,
                                     e.desc.nubbin_end,
                                     e.desc.end_control,
                                     end >>] >>

(***************************************************************************)
(* puzz.rs: Puzzle                                                         *)
(***************************************************************************)
\* Puzzle::index_of_vertex (0-based)
index_of_vertex(vi) == vi.row * (x_pieces + 1) + vi.col

\* self.vertices[self.index_of_vertex(vi)]
VertexAt(vi) == vertices[index_of_vertex(vi) + 1]

\* mutant of GridPoints: the outer loop stops one row early (0..y_pieces)
GridPoints_RowShort ==
    LET piece_width == FDiv(x_mm, F(x_pieces))
        piece_height == FDiv(y_mm, F(y_pieces))
    IN [ i \in 1 .. (y_pieces * (x_pieces + 1)) |->
           LET y == (i - 1) \div (x_pieces + 1)
               x == (i - 1) % (x_pieces + 1)
           IN Pt(FMul(F(x), piece_width), FMul(F(y), piece_height)) ]

\* the vertices pushed by the two loops of Puzzle::gen_vertices, in order
GridPoints ==
    LET piece_width == FDiv(x_mm, F(x_pieces))
        piece_height == FDiv(y_mm, F(y_pieces))
    IN [ i \in 1 .. ((y_pieces + 1) * (x_pieces + 1)) |->
           LET y == (i - 1) \div (x_pieces + 1)
               x == (i - 1) % (x_pieces + 1)
           IN Pt(FMul(F(x), piece_width), FMul(F(y), piece_height)) ]

\* Puzzle::is_edge_vertex
is_edge_vertex(vi) ==
    vi.row = 0 \/ vi.row = y_pieces \/ vi.col = 0 \/ vi.col = x_pieces

\* mutant of neighbors: the left neighbour is forgotten
neighbors_NoLeft(vi) ==
    (IF vi.row > 0 THEN <<VertexIndex(vi.row - 1, vi.col)>> ELSE <<>>)
    \o (IF vi.row < y_pieces THEN <<VertexIndex(vi.row + 1, vi.col)>> ELSE <<>>)
    \o (IF vi.col < x_pieces THEN <<VertexIndex(vi.row, vi.col + 1)>> ELSE <<>>)

\* mutant of neighbors: the lower neighbour is forgotten
neighbors_NoDown(vi) ==
    (IF vi.row > 0 THEN <<VertexIndex(vi.row - 1, vi.col)>> ELSE <<>>)
    \o (IF vi.col > 0 THEN <<VertexIndex(vi.row, vi.col - 1)>> ELSE <<>>)
    \o (IF vi.col < x_pieces THEN <<VertexIndex(vi.row, vi.col + 1)>> ELSE <<>>)

\* Puzzle::neighbors: up, down, left, right
neighbors(vi) ==
    (IF vi.row > 0 THEN <<VertexIndex(vi.row - 1, vi.col)>> ELSE <<>>)
    \o (IF vi.row < y_pieces THEN <<VertexIndex(vi.row + 1, vi.col)>> ELSE <<>>)
    \o (IF vi.col > 0 THEN <<VertexIndex(vi.row, vi.col - 1)>> ELSE <<>>)
    \o (IF vi.col < x_pieces THEN <<VertexIndex(vi.row, vi.col + 1)>> ELSE <<>>)

\* mutant of Unvisited: the filter is dropped
Unvisited_NoFilter(ns, visited) == ns

\* .filter(|vi| !done.contains(vi)) of gen_edges
Unvisited(ns, visited) == SelectSeq(ns, LAMBDA vi : vi \notin visited)

\* the jitter bound add_edge passes to Edge::jitter, 0.06, in hundredths
JitterMax == 6

\* mutant of is_along_edge: || in place of &&
is_along_edge_Either(vi1, vi2) == is_edge_vertex(vi1) \/ is_edge_vertex(vi2)

\* let is_along_edge = ... of add_edge
is_along_edge(vi1, vi2) == is_edge_vertex(vi1) /\ is_edge_vertex(vi2)

\* the edge add_edge builds for (vi1, vi2) from the random source r
NewEdge(r, vi1, vi2) ==
    LET v1 == VMin(vi1, vi2)
        v2 == VMax(vi1, vi2)
        e0 == IF is_along_edge(vi1, vi2) THEN plain ELSE nubbin
        e1 == Edge_jitter(e0, JitterMax, r)
        r1 == Advance(r, JitterDraws(e0))
        e2 == IF GenBool(r1) THEN Edge_mirror_x(e1) ELSE e1
    IN transform(e2, VertexAt(v1), VertexAt(v2))

\* HashMap::insert
MapInsert(m, k, v) == [ j \in (DOMAIN m) \cup {k} |-> IF j = k THEN v ELSE m[j] ]

\* Puzzle::add_edge on st = [edges, rng, calls]
add_edge(st, vi1, vi2) ==
    LET key == << VMin(vi1, vi2), VMax(vi1, vi2) >>
        e == NewEdge(st.rng, vi1, vi2)
        n == IF key \in DOMAIN st.calls THEN st.calls[key] ELSE 0
    IN [ edges |-> MapInsert(st.edges, key, e),
         rng |-> Advance(st.rng, JitterDraws(e) + 1),
         calls |-> MapInsert(st.calls, key, n + 1) ]

\* the body of the for loop of gen_edges over the neighbors ns of current
RECURSIVE AddEdges(_, _, _)
AddEdges(st, current, ns) ==
    IF ns = <<>> THEN st
    ELSE AddEdges(add_edge(st, current, Head(ns)), current, Tail(ns))

Range(q) == { q[i] : i \in DOMAIN q }

EmptyMap == [ k \in {} |-> 0 ]

\* an order in which a HashMap may iterate over its keys
KeyRank(k) ==
    index_of_vertex(k[1]) * (MaxVertices + 1) * (MaxVertices + 1)
        + index_of_vertex(k[2])

RECURSIVE SortedKeys(_)
SortedKeys(S) ==
    IF S = {} THEN <<>>
    ELSE LET k == CHOOSE a \in S : \A b \in S : KeyRank(a) <= KeyRank(b)
         IN <<k>> \o SortedKeys(S \ {k})

IterOrder(S, h) ==
    LET q == SortedKeys(S)
        n == Len(q)
    IN [ i \in 1 .. n |-> q[((i - 1 + h) % n) + 1] ]

\* Puzzle::to_svg with the edge table iterated in order h
to_svg(h) ==
    LET q == IterOrder(DOMAIN edges, h)
    IN [ viewBox |-> <<x_mm, y_mm>>,
         width |-> x_mm,
         height |-> y_mm,
         d |-> [ i \in 1 .. Len(q) |->
                   Edge_svg(edges[q[i]], VertexAt(q[i][1]), VertexAt(q[i][2])) ] ]

(***************************************************************************)
(* The program                                                             *)
(***************************************************************************)
DefaultBuilder == [x_mm |-> 0, y_mm |-> 0, x_pieces |-> 0, y_pieces |-> 0]

NoPuzzle ==
    /\ x_mm = 0 /\ y_mm = 0 /\ x_pieces = 0 /\ y_pieces = 0
    /\ vertices = <<>>
    /\ edges = EmptyMap
    /\ done = {} /\ todo = {}
    /\ rng = [seed |-> 0, pos |-> 0]
    /\ calls = EmptyMap
    /\ svg = <<>>

Init ==
    /\ jitter_pct \in JitterInputs
    /\ builder = DefaultBuilder
    /\ pc = "builder"
    /\ panic = ""
    /\ NoPuzzle
    /\ prev = <<>>

\* Builder::size
Size(x, y) ==
    /\ pc = "builder"
    /\ builder' = [builder EXCEPT !.x_mm = F(x), !.y_mm = F(y)]
    /\ UNCHANGED <<jitter_pct, pc, panic, x_mm, y_mm, x_pieces, y_pieces,
                   vertices, edges, done, todo, rng, calls, svg, prev>>

\* Builder::pieces
Pieces(x, y) ==
    /\ pc = "builder"
    /\ builder' = [builder EXCEPT !.x_pieces = x, !.y_pieces = y]
    /\ UNCHANGED <<jitter_pct, pc, panic, x_mm, y_mm, x_pieces, y_pieces,
                   vertices, edges, done, todo, rng, calls, svg, prev>>

\* Builder::build, Puzzle::build up to the call of gen_vertices
Build(seed) ==
    /\ pc = "builder"
    /\ x_mm' = builder.x_mm
    /\ y_mm' = builder.y_mm
    /\ x_pieces' = builder.x_pieces
    /\ y_pieces' = builder.y_pieces
    /\ vertices' = <<>>
    /\ edges' = EmptyMap
    /\ rng' = [seed |-> seed, pos |-> 0]
    /\ pc' = "gen_vertices"
    /\ UNCHANGED <<jitter_pct, builder, panic, done, todo, calls, svg, prev>>

\* Puzzle::gen_vertices
GenVertices ==
    /\ pc = "gen_vertices"
    /\ IF vertices = <<>>
       THEN /\ vertices' = GridPoints
            /\ pc' = "gen_edges_begin"
            /\ panic' = panic
       ELSE /\ vertices' = vertices
            /\ pc' = "panic"
            /\ panic' = "assert!(self.vertices.is_empty())"
    /\ UNCHANGED <<jitter_pct, builder, x_mm, y_mm, x_pieces, y_pieces,
                   edges, done, todo, rng, calls, svg, prev>>

\* Puzzle::gen_edges up to the loop
GenEdgesBegin ==
    /\ pc = "gen_edges_begin"
    /\ IF edges = EmptyMap /\ vertices # <<>>
       THEN /\ done' = {}
            /\ todo' = { VertexIndex(0, 0) }
            /\ pc' = "gen_edges"
            /\ panic' = panic
       ELSE /\ UNCHANGED <<done, todo>>
            /\ pc' = "panic"
            /\ panic' = "assert!(gen_edges precondition)"
    /\ UNCHANGED <<jitter_pct, builder, x_mm, y_mm, x_pieces, y_pieces,
                   vertices, edges, rng, calls, svg, prev>>

\* one iteration of the while loop of Puzzle::gen_edges
GenEdgesStep(current) ==
    /\ pc = "gen_edges"
    /\ current \in todo
    /\ LET ns == Unvisited(neighbors(current), done)
           st == AddEdges([edges |-> edges, rng |-> rng, calls |-> calls],
                          current, ns)
           inserted == current \notin done
       IN /\ todo' = (todo \ {current}) \cup Range(ns)
          /\ edges' = st.edges
          /\ rng' = st.rng
          /\ calls' = st.calls
          /\ done' = done \cup {current}
          /\ pc' = IF inserted THEN "gen_edges" ELSE "panic"
          /\ panic' = IF inserted THEN panic ELSE "assert!(inserted)"
    /\ UNCHANGED <<jitter_pct, builder, x_mm, y_mm, x_pieces, y_pieces,
                   vertices, svg, prev>>

\* the end of the loop of gen_edges and the two assert_eq! of Puzzle::build
BuildFinish ==
    /\ pc = "gen_edges"
    /\ todo = {}
    /\ IF (x_pieces + 1) * (y_pieces + 1) # Len(vertices)
       THEN pc' = "panic" /\ panic' = "assert_eq!(vertices.len())"
       ELSE IF (x_pieces + 1) * y_pieces + x_pieces * (y_pieces + 1)
                 # Cardinality(DOMAIN edges)
       THEN pc' = "panic" /\ panic' = "assert_eq!(edges.len())"
       ELSE pc' = "built" /\ panic' = panic
    /\ UNCHANGED <<jitter_pct, builder, x_mm, y_mm, x_pieces, y_pieces,
                   vertices, edges, done, todo, rng, calls, svg, prev>>

\* Puzzle::to_svg, called by real_main
ToSvg(h) ==
    /\ pc = "built"
    /\ svg' = << to_svg(h) >>
    /\ pc' = "done"
    /\ UNCHANGED <<jitter_pct, builder, panic, x_mm, y_mm, x_pieces, y_pieces,
                   vertices, edges, done, todo, rng, calls, prev>>

Next ==
    \/ \E s \in SizeInputs : Size(s[1], s[2])
    \/ \E p \in PieceInputs : Pieces(p[1], p[2])
    \/ \E seed \in Seeds : Build(seed)
    \/ GenVertices
    \/ GenEdgesBegin
    \/ \E current \in todo : GenEdgesStep(current)
    \/ BuildFinish
    \/ \E h \in HashOrders : ToSvg(h)

Spec == Init /\ [][Next]_vars

\* what every iteration of the while loop of gen_edges does to done: the
\* steps of Next that satisfy it are the steps of GenEdgesStep
LoopIteration ==
    /\ pc = "gen_edges"
    /\ \E current \in todo : done' = done \cup {current}

\* the while loop of gen_edges keeps running as long as todo is not empty
FairSpec == Spec /\ WF_done(LoopIteration)

(***************************************************************************)
(* A second run of the program, after the first has printed its output     *)
(***************************************************************************)
RerunPieces == { <<1, 1>>, <<2, 2>> }

InitRerun ==
    /\ jitter_pct = 10
    /\ \E p \in RerunPieces :
         builder = [x_mm |-> F(2520), y_mm |-> F(2520),
                    x_pieces |-> p[1], y_pieces |-> p[2]]
    /\ pc = "builder"
    /\ panic = ""
    /\ NoPuzzle
    /\ prev = <<>>

\* real_main is run again with the same arguments
Rerun ==
    /\ pc = "done"
    /\ prev = <<>>
    /\ prev' = << [builder |-> builder, seed |-> rng.seed, svg |-> svg[1]] >>
    /\ pc' = "builder"
    /\ x_mm' = 0 /\ y_mm' = 0 /\ x_pieces' = 0 /\ y_pieces' = 0
    /\ vertices' = <<>>
    /\ edges' = EmptyMap
    /\ done' = {} /\ todo' = {}
    /\ rng' = [seed |-> 0, pos |-> 0]
    /\ calls' = EmptyMap
    /\ svg' = <<>>
    /\ UNCHANGED <<jitter_pct, builder, panic>>

\* the second run is handed the random stream the first run drew from
NextRerun ==
    \/ \E seed \in Seeds : prev = <<>> /\ Build(seed)
    \/ prev # <<>> /\ Build(prev[1].seed)
    \/ GenVertices
    \/ GenEdgesBegin
    \/ \E current \in todo : GenEdgesStep(current)
    \/ BuildFinish
    \/ \E h \in HashOrders : ToSvg(h)
    \/ Rerun

SpecRerun == InitRerun /\ [][NextRerun]_vars

(***************************************************************************)
(* Properties                                                              *)
(***************************************************************************)
ValidPieces == x_pieces >= 1 /\ y_pieces >= 1

AllVertices ==
    { VertexIndex(r, c) : r \in 0 .. y_pieces, c \in 0 .. x_pieces }

Abs(n) == IF n < 0 THEN 0 - n ELSE n

\* the canonical (min, max) pairs of grid-adjacent vertices
AdjacentPairs ==
    { k \in AllVertices \X AllVertices :
        /\ VLess(k[1], k[2])
        /\ Abs(k[1].row - k[2].row) + Abs(k[1].col - k[2].col) = 1 }

LoopEnded == (pc = "gen_edges" /\ todo = {}) \/ pc \in {"built", "done"}

\* C1: for x_pieces, y_pieces >= 1 and every removal order, no key is ever
\* passed to add_edge twice, and when the loop of gen_edges has ended add_edge
\* has been called exactly once for every pair of grid-adjacent vertices and
\* for no other pair: the key set of the edge table is the set of canonical
\* pairs of adjacent vertices.
C1_EveryEdgeExactlyOnce ==
    ValidPieces =>
        /\ \A k \in DOMAIN calls : calls[k] = 1
        /\ DOMAIN calls = DOMAIN edges
        /\ DOMAIN edges \subseteq AdjacentPairs
        /\ LoopEnded => DOMAIN edges = AdjacentPairs

C1_Witness ==
    /\ pc = "gen_edges" /\ todo = {}
    /\ x_pieces = 2 /\ y_pieces = 2
    /\ Cardinality(DOMAIN calls) = 12

OnBoundary(vi) == vi.row \in {0, y_pieces} \/ vi.col \in {0, x_pieces}

\* C2: every edge stored by add_edge is Bumpless if and only if both of its
\* endpoints are on the boundary (row in {0, y_pieces} or col in
\* {0, x_pieces}), and Bumpy otherwise, whichever endpoint was current.
C2_PlainIffBothOnBoundary ==
    \A k \in DOMAIN edges :
        /\ edges[k].kind \in {"Bumpless", "Bumpy"}
        /\ edges[k].kind = "Bumpless" <=> (OnBoundary(k[1]) /\ OnBoundary(k[2]))

C2_Witness ==
    /\ pc = "built"
    /\ \E k \in DOMAIN edges : edges[k].kind = "Bumpless"
    /\ \E k \in DOMAIN edges :
         /\ edges[k].kind = "Bumpy"
         /\ OnBoundary(k[1]) /\ ~OnBoundary(k[2])
    /\ \E k \in DOMAIN edges :
         /\ edges[k].kind = "Bumpy"
         /\ ~OnBoundary(k[1]) /\ OnBoundary(k[2])

\* C3: with x_pieces = 0 or y_pieces = 0 in the Builder, build rejects the
\* configuration: the program never gets to gen_vertices or gen_edges and
\* never returns a Puzzle.
C3_ZeroPiecesRejected ==
    (builder.x_pieces = 0 \/ builder.y_pieces = 0) => pc = "builder"

\* C4: two runs with the same configuration and the same sequence of random
\* draws produce the same output: the same points for every edge (jitter
\* offsets and mirror decisions) and the path commands in the same order.
C4_SameDrawsSameOutput ==
    ( /\ pc = "done"
      /\ prev # <<>>
      /\ prev[1].builder = builder
      /\ prev[1].seed = rng.seed )
    => svg[1] = prev[1].svg

\* C5: for x_pieces, y_pieces >= 1 neither count assertion of Puzzle::build
\* fails: once generated there are (x_pieces+1)*(y_pieces+1) vertices, and
\* when the loop of gen_edges has ended the edge table has
\* (x_pieces+1)*y_pieces + x_pieces*(y_pieces+1) entries.
C5_CountAssertionsHold ==
    ValidPieces =>
        /\ panic \notin {"assert_eq!(vertices.len())", "assert_eq!(edges.len())"}
        /\ pc \notin {"builder", "gen_vertices"} =>
             Len(vertices) = (x_pieces + 1) * (y_pieces + 1)
        /\ LoopEnded =>
             Cardinality(DOMAIN edges)
                 = (x_pieces + 1) * y_pieces + x_pieces * (y_pieces + 1)

C5_Witness ==
    /\ pc = "built"
    /\ x_pieces = 3 /\ y_pieces = 1
    /\ Len(vertices) = 8
    /\ Cardinality(DOMAIN edges) = 10

\* both endpoints in the same outer row or the same outer column
OnFrame(k) ==
    \/ k[1].row = 0 /\ k[2].row = 0
    \/ k[1].row = y_pieces /\ k[2].row = y_pieces
    \/ k[1].col = 0 /\ k[2].col = 0
    \/ k[1].col = x_pieces /\ k[2].col = x_pieces

\* C6: for x_pieces, y_pieces >= 1 an edge is Bumpless exactly when it lies
\* on the outer frame of the rectangle; every edge that separates two pieces
\* is Bumpy, also in a grid with a single row or column of pieces.
C6_PlainIffOnFrame ==
    ValidPieces =>
        \A k \in DOMAIN edges : edges[k].kind = "Bumpless" <=> OnFrame(k)

RECURSIVE Flatten(_)
\* the points of a group of path commands, in the order written
Flatten(g) == IF g = <<>> THEN <<>> ELSE Head(g).args \o Flatten(Tail(g))

Ops(g) == [ i \in DOMAIN g |-> g[i].op ]

\* the group of path commands the claim describes for the entry at key k
GroupFor(g, k) ==
    LET e == edges[k]
        start == VertexAt(k[1])
        end == VertexAt(k[2])
    IN IF e.kind = "Bumpless"
       THEN Ops(g) = <<"M", "L">> /\ Flatten(g) = <<start, end>>
       ELSE /\ Ops(g) = <<"M", "C", "S">>
            /\ Len(g[1].args) = 1
            /\ Flatten(g) = << start, e.desc.start_control,
                               e.desc.left_nubbin_control, e.desc.nubbin_start,
                               e.desc.right_nubbin_control, e.desc.nubbin_end,
                               e.desc.end_control, end >>

MoveTos(d) ==
    Cardinality({ c \in { <<i, j>> : i \in DOMAIN d, j \in 1 .. 3 } :
                    c[2] \in DOMAIN d[c[1]] /\ d[c[1]][c[2]].op = "M" })

\* C7: to_svg emits one group of path commands per entry of the edge table,
\* so the number of M commands is the edge count; the group of an entry
\* moves to the position of the key's lower vertex and ends at the position
\* of its higher vertex, as M start L end for a Bumpless edge and as
\* M start C start_control left_nubbin_control nubbin_start
\* S right_nubbin_control nubbin_end end_control end for a Bumpy one.
C7_OneGroupPerEdge ==
    pc = "done" =>
        LET d == svg[1].d IN
        /\ Len(d) = Cardinality(DOMAIN edges)
        /\ MoveTos(d) = Cardinality(DOMAIN edges)
        /\ \A k \in DOMAIN edges : \E i \in DOMAIN d : GroupFor(d[i], k)
        /\ \A i \in DOMAIN d : \E k \in DOMAIN edges : GroupFor(d[i], k)

C7_Witness ==
    /\ pc = "done"
    /\ x_mm # y_mm
    /\ \E i \in DOMAIN svg[1].d : Len(svg[1].d[i]) = 2
    /\ \E i \in DOMAIN svg[1].d : Len(svg[1].d[i]) = 3

\* C8: with a configured jitter percentage of 0 no control point is
\* perturbed: every Bumpy edge is the unit template, possibly mirrored,
\* mapped by the edge transform.
C8_ZeroJitterNoPerturbation ==
    jitter_pct = 0 =>
        \A k \in DOMAIN edges :
            edges[k].kind = "Bumpy" =>
                edges[k] \in
                    { transform(nubbin, VertexAt(k[1]), VertexAt(k[2])),
                      transform(Edge_mirror_x(nubbin),
                                VertexAt(k[1]), VertexAt(k[2])) }

\* C9: for x_pieces, y_pieces >= 1 and every removal order the assertion
\* that current was not yet in done never fails: no vertex of done is in
\* (or is put back into) todo, so no vertex is processed twice.
C9_NeverRevisits ==
    ValidPieces =>
        /\ panic # "assert!(inserted)"
        /\ todo \cap done = {}

C9_Witness ==
    /\ pc = "gen_edges"
    /\ x_pieces = 2 /\ y_pieces = 2
    /\ VertexIndex(1, 1) \in done
    /\ todo # {}

\* C10: for x_pieces, y_pieces >= 1 and every removal order the loop of
\* gen_edges terminates: todo becomes empty, and then done holds all
\* (x_pieces+1)*(y_pieces+1) grid vertices.
C10_LoopTerminates ==
    (pc = "gen_edges" /\ ValidPieces)
        ~> (pc = "gen_edges" /\ todo = {} /\ done = AllVertices
              /\ Cardinality(done) = (x_pieces + 1) * (y_pieces + 1))

C10_Witness ==
    /\ pc = "gen_edges" /\ todo = {}
    /\ x_pieces = 2 /\ y_pieces = 2
    /\ Cardinality(done) = 9

====
